---------------------------- MODULE Spec2Model ----------------------------
(***************************************************************************)
(* Model of scripts/flaky_from_testomat.py: the one-shot batch that folds  *)
(* a Testomat run export into the cumulative flaky-test ledger (a CSV).    *)
(*                                                                         *)
(* A row is the dict the script keeps per test run; every field is a       *)
(* string, as it is after csv.DictReader / to_row.  trend_last5 is kept as *)
(* the sequence of its glyphs (the script joins them without separator;    *)
(* the glyphs U+2705, U+274C and U+23ED are written "P", "F" and "S").     *)
(***************************************************************************)
EXTENDS Integers, Sequences, FiniteSets, TLC

VARIABLES
    pc,        \* position of the process: in main or in compute_trend_and_flaky
    ledger,    \* the rows of the CSV file at out_csv (<<>>: no file yet)
    ledger0,   \* the rows of that file when the running invocation started
    doc,       \* the input file at in_json of the running invocation
    items,     \* main: items = parse_items(doc)
    new_rows,  \* main: new_rows
    all_rows,  \* compute_trend_and_flaky: the list all_rows (main's `merged`)
    grouped,   \* compute_trend_and_flaky: grouped, title -> history
    i,         \* compute_trend_and_flaky: rows of all_rows visited by the loop
    locals,    \* compute_trend_and_flaky: the loop body's locals, last iteration
    input,     \* the argument list as it was when the engine was entered
    order,     \* order[j]: position in `input` of the row now at all_rows[j]
    pass,      \* engine passes started over the same records
    prev,      \* the list the previous pass returned
    exit       \* how the process ended: "" running, "ok", "error" (sys.exit
               \* with a message), "TypeError" (uncaught exception)

vars == <<pc, ledger, ledger0, doc, items, new_rows, all_rows, grouped, i,
          locals, input, order, pass, prev, exit>>

---------------------------------------------------------------------------
(* Bounds of the model.                                                    *)

MaxItems == 2
MaxLedger == 3
MaxOrderLen == 4
MaxRulesLen == 4
MaxTrendLen == 6
MaxDurLen == 6
MaxSpreadLen == 4
MaxPasses == 2

---------------------------------------------------------------------------
(* Python built-ins on the strings the model draws.                        *)

\* str.lower()
lower(s) ==
    CASE s \in {"passed", "PASSED", "Passed"} -> "passed"
      [] s \in {"failed", "FAILED", "Failed"} -> "failed"
      [] OTHER -> s

\* str.strip()
strip(s) ==
    CASE s \in {"  ", ""} -> ""
      [] s \in {" A ", "A"} -> "A"
      [] s \in {"B ", "B"} -> "B"
      [] OTHER -> s

\* int(s) for a decimal string; "x" stands for any string int() rejects
IsIntString(s) == s \in {"0", "1", "2", "100", "500", "600"}

py_int(s) ==
    CASE s = "0" -> 0
      [] s = "1" -> 1
      [] s = "2" -> 2
      [] s = "100" -> 100
      [] s = "500" -> 500
      [] s = "600" -> 600

\* str(n)
py_str(n) ==
    CASE n = 0 -> "0"
      [] n = 1 -> "1"
      [] n = 2 -> "2"
      [] n = 100 -> "100"
      [] n = 500 -> "500"
      [] n = 600 -> "600"

\* a < b on the title strings (code point order)
TitleOrder == <<"", "A", "B">>

TitleRank(t) == CHOOSE k \in 1..Len(TitleOrder) : TitleOrder[k] = t

\* datetime.fromisoformat(s.replace("Z", "+00:00")): the instant in hours
\* since 2024-01-01T00:00 UTC and whether the value carries an offset;
\* "parsed" is FALSE where fromisoformat raises ValueError.
fromisoformat(s) ==
    CASE s = "2024-01-01T10:00:00" -> [parsed |-> TRUE, aware |-> FALSE, t |-> 10]
      [] s = "2024-01-01T20:00:00" -> [parsed |-> TRUE, aware |-> FALSE, t |-> 20]
      [] s = "2024-01-02T06:00:00" -> [parsed |-> TRUE, aware |-> FALSE, t |-> 30]
      [] s = "2024-01-01T10:00:00Z" -> [parsed |-> TRUE, aware |-> TRUE, t |-> 10]
      [] s = "2024-01-01T12:00:00+02:00" -> [parsed |-> TRUE, aware |-> TRUE, t |-> 10]
      [] s = "2024-01-01T20:00:00Z" -> [parsed |-> TRUE, aware |-> TRUE, t |-> 20]
      [] OTHER -> [parsed |-> FALSE, aware |-> FALSE, t |-> 0]

\* datetime.min: naive, before every other datetime
datetime_min == [aware |-> FALSE, t |-> -1]

parse_dt(s) ==
    LET d == fromisoformat(s)
    IN  IF d.parsed THEN [aware |-> d.aware, t |-> d.t] ELSE datetime_min

\* a < b on datetimes raises TypeError for an offset-naive and an
\* offset-aware operand; a == b on such a pair is False and raises nothing.
DtComparable(a, b) == a.aware = b.aware

---------------------------------------------------------------------------
(* list.sort(key=...): a stable sort over the keys, which are tuples.      *)

\* A function on 1..n as the list it stands for.
AsSeq(f) == SubSeq(f, 1, Len(f))

\* a < b on two tuples of equal length whose items are integers: the first
\* differing item decides.
TupleLess(a, b) ==
    \E k \in 1..Len(a) :
        /\ \A m \in 1..(k - 1) : a[m] = b[m]
        /\ a[k] < b[k]

\* The position the element at `a` takes: after the elements with a smaller
\* key and after the earlier elements with an equal key.
StableRank(keys, a) ==
    1 + Cardinality({b \in 1..Len(keys) :
                        \/ TupleLess(keys[b], keys[a])
                        \/ (~TupleLess(keys[a], keys[b]) /\ b < a)})

\* The permutation of the sort: p[j] is the old position of the element
\* that lands at position j (rank[a] is where the element at a lands).
StableSort(keys) ==
    LET rank == AsSeq([a \in 1..Len(keys) |-> StableRank(keys, a)])
    IN  AsSeq([j \in 1..Len(keys) |-> CHOOSE a \in 1..Len(keys) : rank[a] = j])

Permute(s, p) == AsSeq([j \in 1..Len(s) |-> s[p[j]]])

\* s[-n:]
LastN(s, n) == IF Len(s) <= n THEN s ELSE SubSeq(s, Len(s) - n + 1, Len(s))

---------------------------------------------------------------------------
(* status_symbol and the statistics module.                                *)

status_symbol(status) ==
    LET s == lower(status)
    IN  IF s = "passed" THEN "P"
        ELSE IF s = "failed" THEN "F"
        ELSE "S"

RECURSIVE Sum(_)
Sum(s) == IF s = <<>> THEN 0 ELSE Head(s) + Sum(Tail(s))

RECURSIVE SumSq(_)
SumSq(s) == IF s = <<>> THEN 0 ELSE Head(s) * Head(s) + SumSq(Tail(s))

RECURSIVE Max(_)
Max(s) ==
    IF Len(s) = 1 THEN Head(s)
    ELSE LET m == Max(Tail(s)) IN IF Head(s) >= m THEN Head(s) ELSE m

SortedInts(s) == Permute(s, StableSort([k \in 1..Len(s) |-> <<s[k]>>]))

\* statistics.median(data), doubled: the middle value, or the mean of the
\* two middle values.
median2(s) ==
    LET d == SortedInts(s)
        n == Len(s)
    IN  IF n % 2 = 1 THEN 2 * d[(n + 1) \div 2]
        ELSE d[n \div 2] + d[n \div 2 + 1]

\* num/den >= a/b for den # 0 and b > 0
FracGE(num, den, a, b) ==
    IF den > 0 THEN num * b >= a * den ELSE num * b <= a * den

\* spike = (max(dur_list) / med) if med else 0.0;  spike >= 5.0
spike_ge_5(dur_list) ==
    LET med2 == median2(dur_list)
    IN  med2 # 0 /\ FracGE(2 * Max(dur_list), med2, 5, 1)

\* cov = (std / mean) if mean else 0.0;  cov >= 0.6, with
\* std = pstdev = sqrt(n*sum(x^2) - sum(x)^2) / n and mean = sum(x) / n, so
\* cov = sqrt(n*sum(x^2) - sum(x)^2) / sum(x): negative or zero below a
\* non-positive mean, and compared by its square above a positive one.
cov_ge_06(dur_list) ==
    LET n == Len(dur_list)
        S == Sum(dur_list)
        Q == SumSq(dur_list)
    IN  S > 0 /\ FracGE(n * Q - S * S, S * S, 9, 25)

---------------------------------------------------------------------------
(* compute_trend_and_flaky: the body of the loop over all_rows.            *)

R1_REASON == ">1 fail in last5"
R3_REASON == ">1 retry to pass"
R4_REASON == "duration instability"

\* prev_syms = [status_symbol(r["status"]) for r in history][-4:]
prev_syms(history) ==
    LastN([k \in 1..Len(history) |-> status_symbol(history[k].status)], 4)

\* Mutant: the window one glyph short.
syms_of_window4(history, row) ==
    LastN(prev_syms(history) \o <<status_symbol(row.status)>>, 4)

\* syms = (prev_syms + [cur_sym])[-5:]
syms_of(history, row) ==
    LastN(prev_syms(history) \o <<status_symbol(row.status)>>, 5)

\* Mutant: the last 4 durations that are set, from the whole history.
dur_list_of_last4_known(history, row) ==
    LET known == LastN(SelectSeq(history, LAMBDA r : r.duration_ms # ""), 4)
        prior == [k \in 1..Len(known) |-> py_int(known[k].duration_ms)]
    IN  IF row.duration_ms # "" THEN Append(prior, py_int(row.duration_ms))
        ELSE prior

\* dur_list: the durations of history[-4:] that are set, then cur_dur if set
dur_list_of(history, row) ==
    LET known == SelectSeq(LastN(history, 4), LAMBDA r : r.duration_ms # "")
        prior == [k \in 1..Len(known) |-> py_int(known[k].duration_ms)]
    IN  IF row.duration_ms # "" THEN Append(prior, py_int(row.duration_ms))
        ELSE prior

\* syms.count(fail glyph) >= 2
R1(syms) == Cardinality({k \in 1..Len(syms) : syms[k] = "F"}) >= 2

\* row["status"].lower() == "passed" and int(row.get("retries") or 0) > 1
R3(row) ==
    LET retries_int == IF row.retries # "" THEN py_int(row.retries) ELSE 0
    IN  lower(row.status) = "passed" /\ retries_int > 1

\* len(dur_list) >= 3 and (spike >= 5.0 or cov >= 0.6)
R4(dur_list) ==
    Len(dur_list) >= 3 /\ (spike_ge_5(dur_list) \/ cov_ge_06(dur_list))

\* Mutant: R3 tried before R1.
reasons_of_r3_first(syms, row, dur_list) ==
    (IF R3(row) THEN <<R3_REASON>> ELSE <<>>)
    \o (IF R1(syms) THEN <<R1_REASON>> ELSE <<>>)
    \o (IF R4(dur_list) THEN <<R4_REASON>> ELSE <<>>)

\* reasons, in the order the rules are tried
reasons_of(syms, row, dur_list) ==
    (IF R1(syms) THEN <<R1_REASON>> ELSE <<>>)
    \o (IF R3(row) THEN <<R3_REASON>> ELSE <<>>)
    \o (IF R4(dur_list) THEN <<R4_REASON>> ELSE <<>>)

score_of(syms, row, dur_list) ==
    (IF R1(syms) THEN 40 ELSE 0)
    + (IF R3(row) THEN 20 ELSE 0)
    + (IF R4(dur_list) THEN 20 ELSE 0)

\* Mutant: the score left out of the verdict.
is_flaky_of_r1_only(score, reasons) ==
    IF \E k \in 1..Len(reasons) : reasons[k] = R1_REASON THEN "yes" ELSE "no"

\* "yes" if (score >= 40 or ">1 fail in last5" in reasons) else "no"
is_flaky_of(score, reasons) ==
    IF score >= 40 \/ (\E k \in 1..Len(reasons) : reasons[k] = R1_REASON)
    THEN "yes" ELSE "no"

\* "; ".join(reasons)
RECURSIVE join(_)
join(reasons) ==
    IF reasons = <<>> THEN ""
    ELSE IF Len(reasons) = 1 THEN reasons[1]
    ELSE reasons[1] \o "; " \o join(Tail(reasons))

\* The locals of one iteration.
loop_locals(history, row) ==
    LET syms == syms_of(history, row)
        dur_list == dur_list_of(history, row)
    IN  [syms |-> syms,
         dur_list |-> dur_list,
         reasons |-> reasons_of(syms, row, dur_list),
         score |-> score_of(syms, row, dur_list)]

\* Mutant: reasons appended to what the row already holds.
scored_row_appending(history, row) ==
    LET l == loop_locals(history, row)
    IN  [row EXCEPT !.trend_last5 = l.syms,
                    !.is_flaky = is_flaky_of(l.score, l.reasons),
                    !.reasons = row.reasons \o join(l.reasons)]

\* The row as the iteration leaves it: the three derived fields assigned.
scored_row(history, row) ==
    LET l == loop_locals(history, row)
    IN  [row EXCEPT !.trend_last5 = l.syms,
                    !.is_flaky = is_flaky_of(l.score, l.reasons),
                    !.reasons = join(l.reasons)]

\* Mutant: each title's rows newest first.
title_keys_newest_first(rows) ==
    [j \in 1..Len(rows) |-> <<TitleRank(rows[j].title), 0 - parse_dt(rows[j].run_at).t>>]

\* Mutant: the second sort left out (every key equal).
time_keys_unsorted(rows) == [j \in 1..Len(rows) |-> <<0>>]

\* The sort keys: (r["title"], parse_dt(r["run_at"])) and parse_dt2(r["run_at"])
title_keys(rows) ==
    AsSeq([j \in 1..Len(rows) |-> <<TitleRank(rows[j].title), parse_dt(rows[j].run_at).t>>])

time_keys(rows) ==
    AsSeq([j \in 1..Len(rows) |-> <<parse_dt(rows[j].run_at).t>>])

\* The first sort compares the datetimes of two keys when their titles are
\* equal, the second sort those of any two keys; a sort has to compare across
\* the two kinds of datetime once both occur among the keys it orders.
title_sort_raises(rows) ==
    \E a, b \in 1..Len(rows) :
        /\ rows[a].title = rows[b].title
        /\ ~DtComparable(parse_dt(rows[a].run_at), parse_dt(rows[b].run_at))

time_sort_raises(rows) ==
    \E a, b \in 1..Len(rows) :
        ~DtComparable(parse_dt(rows[a].run_at), parse_dt(rows[b].run_at))

Identity(n) == [j \in 1..n |-> j]

\* The loop over rows[k..], with the histories g built so far.
RECURSIVE score_from(_, _, _)
score_from(rows, k, g) ==
    IF k > Len(rows) THEN rows
    ELSE LET row == rows[k]
             done == scored_row(g[row.title], row)
         IN  score_from([rows EXCEPT ![k] = done], k + 1,
                        [g EXCEPT ![row.title] = Append(g[row.title], done)])

NoLocals == [syms |-> <<>>, dur_list |-> <<>>, reasons |-> <<>>, score |-> 0]

\* grouped = {}
NoHistory == [t \in {TitleOrder[k] : k \in 1..Len(TitleOrder)} |-> <<>>]

---------------------------------------------------------------------------
(* compute_trend_and_flaky, step by step.                                  *)

\* all_rows.sort(key=lambda r: (r["title"], parse_dt(r["run_at"])))
\* A TypeError raised by a comparison leaves the sort and the function; no
\* caller catches it, and nothing reads the list afterwards.
SortByTitle ==
    /\ pc = "sort_title"
    /\ IF title_sort_raises(all_rows)
       THEN /\ pc' = "idle"
            /\ exit' = "TypeError"
            /\ UNCHANGED <<all_rows, order, grouped, i>>
       ELSE LET p == StableSort(title_keys(all_rows))
            IN  /\ all_rows' = Permute(all_rows, p)
                /\ order' = Permute(order, p)
                /\ grouped' = NoHistory
                /\ i' = 0
                /\ pc' = "score"
                /\ UNCHANGED exit
    /\ UNCHANGED <<ledger, ledger0, doc, items, new_rows, locals, input, pass, prev>>

\* for row in all_rows: ... history.append(row)
ScoreRow ==
    /\ pc = "score"
    /\ i < Len(all_rows)
    /\ LET row == all_rows[i + 1]
           history == grouped[row.title]
           done == scored_row(history, row)
       IN  /\ all_rows' = [all_rows EXCEPT ![i + 1] = done]
           /\ grouped' = [grouped EXCEPT ![row.title] = Append(history, done)]
           /\ locals' = loop_locals(history, row)
    /\ i' = i + 1
    /\ UNCHANGED <<pc, ledger, ledger0, doc, items, new_rows, input, order, pass, prev, exit>>

\* all_rows.sort(key=lambda r: parse_dt2(r["run_at"])); return all_rows
SortByTime ==
    /\ pc = "score"
    /\ i = Len(all_rows)
    /\ IF time_sort_raises(all_rows)
       THEN /\ pc' = "idle"
            /\ exit' = "TypeError"
            /\ UNCHANGED <<all_rows, order>>
       ELSE LET p == StableSort(time_keys(all_rows))
            IN  /\ all_rows' = Permute(all_rows, p)
                /\ order' = Permute(order, p)
                /\ pc' = "returned"
                /\ UNCHANGED exit
    /\ UNCHANGED <<ledger, ledger0, doc, items, new_rows, grouped, i, locals, input, pass, prev>>

\* The caller passes the returned list to the function again.
CallAgain ==
    /\ pc = "returned"
    /\ pass < MaxPasses
    /\ prev' = all_rows
    /\ input' = all_rows
    /\ order' = Identity(Len(all_rows))
    /\ pass' = pass + 1
    /\ pc' = "sort_title"
    /\ grouped' = NoHistory
    /\ i' = 0
    /\ locals' = NoLocals
    /\ UNCHANGED <<ledger, ledger0, doc, items, new_rows, all_rows, exit>>

---------------------------------------------------------------------------
(* The engine called directly on a list of canonical rows.                 *)

NoDoc == [enc |-> "", text |-> "", shape |-> "", elems |-> <<>>]

\* A row as to_row builds it: run_id falls back to run_at, nothing derived.
Row(title, run_at, status, retries, duration_ms) ==
    [run_at |-> run_at, run_id |-> run_at, title |-> title, status |-> status,
     retries |-> retries, duration_ms |-> duration_ms,
     trend_last5 |-> <<>>, is_flaky |-> "", reasons |-> ""]

Lists(S, n) == UNION {[1..k -> S] : k \in 0..n}

\* Two titles; timestamps that cannot be parsed, that carry no offset, that
\* carry one, and two spellings of one instant.
OrderRows ==
    {Row("A", "2024-01-01T10:00:00Z", "failed", "0", "100"),
     Row("A", "2024-01-01T12:00:00+02:00", "passed", "2", "100"),
     Row("A", "2024-01-01T20:00:00Z", "failed", "0", "600"),
     Row("B", "2024-01-01T10:00:00Z", "failed", "0", ""),
     Row("A", "not-a-date", "failed", "1", "600"),
     Row("B", "", "passed", "2", "100"),
     Row("A", "2024-01-01T10:00:00", "passed", "0", "100"),
     Row("B", "2024-01-01T10:00:00", "failed", "0", "0")}

EngineInit(rows) ==
    /\ pc = "sort_title"
    /\ all_rows = rows
    /\ input = rows
    /\ order = Identity(Len(rows))
    /\ grouped = NoHistory
    /\ i = 0
    /\ locals = NoLocals
    /\ pass = 1
    /\ prev = <<>>
    /\ exit = ""
    /\ ledger = <<>>
    /\ ledger0 = <<>>
    /\ doc = NoDoc
    /\ items = <<>>
    /\ new_rows = <<>>

InitOrder == \E rows \in Lists(OrderRows, MaxOrderLen) : EngineInit(rows)

\* One title, one run_at (the input order is the chronological one); the
\* statuses, retry counts and durations that set the rules apart.
RulesRows ==
    {Row("A", "2024-01-01T10:00:00", "failed", "0", "100"),
     Row("A", "2024-01-01T10:00:00", "passed", "2", "100"),
     Row("A", "2024-01-01T10:00:00", "passed", "2", "600"),
     Row("A", "2024-01-01T10:00:00", "passed", "0", "600"),
     Row("A", "2024-01-01T10:00:00", "PASSED", "1", "")}

InitRules == \E rows \in Lists(RulesRows, MaxRulesLen) : EngineInit(rows)

\* Statuses in several spellings, over two run_at values of one title and a
\* second title between them.
TrendRows ==
    {Row("A", "2024-01-01T10:00:00", "failed", "0", ""),
     Row("A", "2024-01-01T20:00:00", "PASSED", "0", ""),
     Row("A", "2024-01-01T10:00:00", "skipped", "0", ""),
     Row("B", "2024-01-01T10:00:00", "Failed", "0", "")}

InitTrend == \E rows \in Lists(TrendRows, MaxTrendLen) : EngineInit(rows)

\* One title and one run_at; durations unknown, zero, and apart by the
\* factors the thresholds are about.
DurRows ==
    {Row("A", "2024-01-01T10:00:00", "passed", "0", d) : d \in {"", "0", "100", "600"}}

SpreadRows ==
    {Row("A", "2024-01-01T10:00:00", "passed", "0", d) : d \in {"0", "100", "500", "600"}}

InitDur ==
    \/ \E rows \in Lists(DurRows, MaxDurLen) : EngineInit(rows)
    \/ \E rows \in Lists(SpreadRows, MaxSpreadLen) : EngineInit(rows)

NextEngine == SortByTitle \/ ScoreRow \/ SortByTime \/ CallAgain

NextPass == SortByTitle \/ ScoreRow \/ SortByTime

SpecRules == InitRules /\ [][NextEngine]_vars

SpecTrend == InitTrend /\ [][NextPass]_vars

SpecDur == InitDur /\ [][NextPass]_vars

SpecOrder == InitOrder /\ [][NextEngine]_vars

---------------------------------------------------------------------------
(* Claims on the order of the rows (SpecOrder).                            *)

Derived(row) == <<row.trend_last5, row.is_flaky, row.reasons>>

Blank(row) == [row EXCEPT !.trend_last5 = <<>>, !.is_flaky = "", !.reasons = ""]

Identity6(row) ==
    <<row.run_at, row.run_id, row.title, row.status, row.retries, row.duration_ms>>

Chron(row) == parse_dt(row.run_at).t

\* input[b] precedes input[a] in the chronological order of their title:
\* by run_at, then by position in the input.
Before(b, a) ==
    /\ input[b].title = input[a].title
    /\ \/ Chron(input[b]) < Chron(input[a])
       \/ (Chron(input[b]) = Chron(input[a]) /\ b < a)

PredSet(a) == {b \in 1..Len(input) : Before(b, a)}

\* The other input of the comparison: the records of the title that precede
\* input[a], oldest first, then input[a] itself, with nothing derived yet;
\* the later records of the title and the other titles' records are gone.
Projection(a) ==
    LET S == PredSet(a)
        n == Cardinality(S)
    IN  AsSeq([k \in 1..(n + 1) |->
            IF k <= n
            THEN Blank(input[CHOOSE b \in S : Cardinality({c \in S : Before(c, b)}) = k - 1])
            ELSE Blank(input[a])])

\* What the scoring pass assigns to the last record of `rows`.
DerivedOfLast(rows) ==
    LET p == StableSort(title_keys(rows))
        out == score_from(Permute(rows, p), 1, NoHistory)
        j == CHOOSE j \in 1..Len(rows) : p[j] = Len(rows)
    IN  Derived(out[j])

\* C1 (no lookahead): what the scoring pass has just assigned to a record,
\* and what the record holds in the returned list, is what the pass assigns
\* to that record in the input that holds only the record and the
\* records of its title that precede it chronologically; so any two inputs
\* that agree on those records assign the same trend_last5, is_flaky and
\* reasons, whatever later records or other titles they hold.
C1_NoLookahead ==
    /\ (pc = "score" /\ i >= 1) =>
          Derived(all_rows[i]) = DerivedOfLast(Projection(order[i]))
    /\ pc = "returned" =>
          \A j \in 1..Len(all_rows) :
              Derived(all_rows[j]) = DerivedOfLast(Projection(order[j]))

\* C1 witness: a scored record with a predecessor, a later record of its
\* title and a record of another title in the input.
C1_Witness ==
    /\ pc = "score"
    /\ i >= 1
    /\ \E b, c \in 1..Len(input) :
          /\ Before(b, order[i])
          /\ Before(order[i], c)
          /\ input[b].status # input[c].status
    /\ \E d \in 1..Len(input) : input[d].title # all_rows[i].title

\* C2 (idempotence): a pass over the list the previous pass returned returns
\* the same rows in the same order with the same derived fields.
C2_Idempotent ==
    (pc = "returned" /\ pass >= 2) => all_rows = prev

\* C2 witness: a second pass has returned rows that share a run_at within a
\* title and across titles, one of them with a reason set.
C2_Witness ==
    /\ pc = "returned"
    /\ pass = 2
    /\ \E a, b, c \in 1..Len(all_rows) :
          /\ a # b
          /\ all_rows[a].title = all_rows[b].title
          /\ all_rows[a].title # all_rows[c].title
          /\ Chron(all_rows[a]) = Chron(all_rows[b])
          /\ Chron(all_rows[a]) = Chron(all_rows[c])
          /\ all_rows[b].reasons # ""

\* C4: the returned list is the input permuted, the six input fields of
\* every record untouched, by ascending run_at; records with an equal run_at
\* stay in the order of the scoring pass (by title, then input position).
C4_SortedPermutation ==
    pc = "returned" =>
        /\ Len(all_rows) = Len(input)
        /\ {order[j] : j \in 1..Len(order)} = 1..Len(input)
        /\ \A j \in 1..Len(all_rows) :
              Identity6(all_rows[j]) = Identity6(input[order[j]])
        /\ \A j, k \in 1..Len(all_rows) :
              j < k =>
                 \/ Chron(all_rows[j]) < Chron(all_rows[k])
                 \/ /\ Chron(all_rows[j]) = Chron(all_rows[k])
                    /\ \/ TitleRank(all_rows[j].title) < TitleRank(all_rows[k].title)
                       \/ /\ all_rows[j].title = all_rows[k].title
                          /\ order[j] < order[k]

\* C4 witness: a returned list whose input was out of time order, with two
\* titles interleaved by the sort and a tie between them.
C4_Witness ==
    /\ pc = "returned"
    /\ pass = 1
    /\ \E a, b \in 1..Len(input) : a < b /\ Chron(input[a]) > Chron(input[b])
    /\ \E j, k \in 1..Len(all_rows) :
          /\ j < k
          /\ Chron(all_rows[j]) = Chron(all_rows[k])
          /\ all_rows[j].title # all_rows[k].title
          /\ order[j] > order[k]

\* C5: a bad timestamp never makes the engine fail: on rows of which some
\* have an unparsable run_at and the others a valid one, with or without an
\* offset, the engine raises nothing, and it puts every row with an
\* unparsable run_at before every row with a parseable one, in the history
\* of its title and in the list it returns.
C5_BadTimestampTolerated ==
    (\E a \in 1..Len(input) : fromisoformat(input[a].run_at).parsed = FALSE) =>
    /\ exit # "TypeError"
    /\ \A t \in DOMAIN grouped : \A j, k \in 1..Len(grouped[t]) :
          (j < k /\ fromisoformat(grouped[t][k].run_at).parsed = FALSE)
              => fromisoformat(grouped[t][j].run_at).parsed = FALSE
    /\ pc = "returned" =>
          \A j, k \in 1..Len(all_rows) :
              (j < k /\ fromisoformat(all_rows[k].run_at).parsed = FALSE)
                  => fromisoformat(all_rows[j].run_at).parsed = FALSE

---------------------------------------------------------------------------
(* Claims on what one iteration assigns.  In a state with pc = "score" and *)
(* i >= 1 the row all_rows[i] has just been scored and `locals` holds the  *)
(* iteration's locals; every row is that row in some state.                *)

JustScored == pc = "score" /\ i >= 1

Holds(seq, x) == \E k \in 1..Len(seq) : seq[k] = x

Weight(b, w) == IF b THEN w ELSE 0

\* C3: the score is 40 for R1 plus 20 for R3 plus 20 for R4, and is_flaky is
\* "yes" exactly when the score is at least 40 ("no" otherwise).
C3_FlakyIffScore40 ==
    JustScored =>
        /\ locals.score = Weight(R1(locals.syms), 40)
                          + Weight(R3(all_rows[i]), 20)
                          + Weight(R4(locals.dur_list), 20)
        /\ all_rows[i].is_flaky = (IF locals.score >= 40 THEN "yes" ELSE "no")

\* C3 witness: R3 and R4 fired without R1 and the row is flaky.
C3_Witness ==
    /\ JustScored
    /\ ~R1(locals.syms)
    /\ R3(all_rows[i])
    /\ R4(locals.dur_list)
    /\ locals.score = 40
    /\ all_rows[i].is_flaky = "yes"

\* The descriptions of the rules that fired, in the order R1, R3, R4.
FiredTexts(t1, t3, t4) ==
    (IF R1(locals.syms) THEN <<t1>> ELSE <<>>)
    \o (IF R3(all_rows[i]) THEN <<t3>> ELSE <<>>)
    \o (IF R4(locals.dur_list) THEN <<t4>> ELSE <<>>)

RECURSIVE SemicolonJoined(_)
SemicolonJoined(texts) ==
    IF texts = <<>> THEN ""
    ELSE IF Len(texts) = 1 THEN texts[1]
    ELSE texts[1] \o "; " \o SemicolonJoined(Tail(texts))

---------------------------------------------------------------------------
(* Claims on the trend (SpecTrend) and on the durations (SpecDur).         *)

\* The chronological predecessors of input[a] within its title, oldest first.
PredSeq(a) ==
    LET S == PredSet(a)
    IN  AsSeq([k \in 1..Cardinality(S) |->
                  CHOOSE b \in S : Cardinality({c \in S : Before(c, b)}) = k - 1])

Min(a, b) == IF a <= b THEN a ELSE b

\* The glyph of a status: pass for 'passed' in any letter case, fail for
\* 'failed', neutral for anything else.
Glyph(status) ==
    CASE status \in {"passed", "Passed", "PASSED"} -> "P"
      [] status \in {"failed", "Failed", "FAILED"} -> "F"
      [] OTHER -> "S"

\* The trend of the record at input position a: the glyphs of its min(4, k)
\* immediate predecessors, oldest first, then its own.
ExpectedTrend(a) ==
    LET preds == PredSeq(a)
        k == Len(preds)
        m == Min(4, k)
    IN  [n \in 1..(m + 1) |->
            IF n <= m THEN Glyph(input[preds[k - m + n]].status)
            ELSE Glyph(input[a].status)]

\* C9: the trend of the record at position k of its title has min(5, k + 1)
\* glyphs, those of its min(4, k) immediate predecessors and its own, and R1
\* fires exactly when at least 2 of them are the fail glyph.
C9_Trend ==
    JustScored =>
        LET a == order[i]
            want == ExpectedTrend(a)
        IN  /\ all_rows[i].trend_last5 = want
            /\ Len(all_rows[i].trend_last5) = Min(5, Len(PredSeq(a)) + 1)
            /\ Holds(locals.reasons, R1_REASON)
                  <=> Cardinality({n \in 1..Len(want) : want[n] = "F"}) >= 2

\* C9 witness: the sixth record of a title, scored after an earlier input
\* position that is chronologically later, with 2 fail glyphs in its trend.
C9_Witness ==
    /\ JustScored
    /\ Len(PredSeq(order[i])) = 5
    /\ \E b \in PredSet(order[i]) : b > order[i]
    /\ Len(all_rows[i].trend_last5) = 5
    /\ Holds(locals.reasons, R1_REASON)
    /\ Holds(all_rows[i].trend_last5, "P")

\* The known durations among the last 4 predecessors of input[a], oldest
\* first, then its own when known.
ExpectedDurList(a) ==
    LET preds == PredSeq(a)
        last4 == LastN(preds, 4)
        known == SelectSeq(last4, LAMBDA b : input[b].duration_ms # "")
        own == IF input[a].duration_ms # "" THEN <<py_int(input[a].duration_ms)>> ELSE <<>>
    IN  [n \in 1..Len(known) |-> py_int(input[known[n]].duration_ms)] \o own

RECURSIVE SumSqDev(_, _, _)
SumSqDev(s, n, total) ==
    IF s = <<>> THEN 0
    ELSE (n * Head(s) - total) * (n * Head(s) - total) + SumSqDev(Tail(s), n, total)

\* max >= 5 x median with a non-zero median
SpikeAsStated(d) == median2(d) # 0 /\ 2 * Max(d) >= 5 * median2(d)

\* population standard deviation >= 0.6 x mean with a non-zero mean: with
\* n values of sum S, 25 * sum((n*x - S)^2) >= 9 * n * S^2
SpreadAsStated(d) ==
    LET n == Len(d)
        S == Sum(d)
    IN  S # 0 /\ 25 * SumSqDev(d, n, S) >= 9 * n * S * S

\* C10: R4 fires exactly when dur_list has at least 3 entries and the spike
\* or the spread condition holds, dur_list being the known durations of the
\* last 4 predecessors and the record's own.
C10_DurationRule ==
    JustScored =>
        LET d == ExpectedDurList(order[i])
        IN  /\ locals.dur_list = d
            /\ Holds(locals.reasons, R4_REASON)
                  <=> (Len(d) >= 3 /\ (SpikeAsStated(d) \/ SpreadAsStated(d)))

\* C10 witness: the third record of durations 100, 100, 600 fires R4.
C10_Witness ==
    /\ JustScored
    /\ i = 3
    /\ locals.dur_list = <<100, 100, 600>>
    /\ Holds(locals.reasons, R4_REASON)

\* Further cases C10 names, each reached: a record outside the window of 4
\* predecessors and an unknown duration inside it; fewer than 3 durations.
C10_WindowCase ==
    /\ JustScored
    /\ i = 6
    /\ Len(locals.dur_list) = 3
    /\ all_rows[1].duration_ms = "600"
    /\ all_rows[3].duration_ms = ""
    /\ ~Holds(locals.reasons, R4_REASON)

---------------------------------------------------------------------------
(* main: one invocation of the script after another on the same ledger.    *)
(*                                                                         *)
(* The input file is [enc, text, shape, elems]: its encoding, whether its  *)
(* text is JSON, where the item list sits ("data", "tests", "list" for a   *)
(* root list, "other" for none of these) and, per item, the attributes     *)
(* dict: a function from the keys present to their values, all strings;    *)
(* <<>> is the empty dict, or an item of "data" without attributes.        *)

SampleAttrs ==
    {("title" :> " A ") @@ ("status" :> "passed") @@ ("retries" :> "2")
        @@ ("created-at" :> "2024-01-01T10:00:00Z") @@ ("run-time" :> "100"),
     ("title" :> "  ") @@ ("status" :> "failed") @@ ("retries" :> "x")
        @@ ("created_at" :> "2024-01-01T20:00:00Z") @@ ("run-id" :> "r2")
        @@ ("duration_ms" :> "600"),
     ("status" :> "FAILED") @@ ("duration" :> "abc"),
     <<>>}

Docs ==
    {[enc |-> "latin-1", text |-> "json", shape |-> "data", elems |-> <<>>],
     [enc |-> "utf-8", text |-> "garbage", shape |-> "other", elems |-> <<>>],
     [enc |-> "utf-8", text |-> "json", shape |-> "other", elems |-> <<>>]}
    \cup {[enc |-> "utf-8", text |-> "json", shape |-> s, elems |-> e] :
             s \in {"data", "tests", "list"}, e \in Lists(SampleAttrs, MaxItems)}

\* attr.get(key), with None written ""
get(attr, key) == IF key \in DOMAIN attr THEN attr[key] ELSE ""

\* a or b
or(a, b) == IF a # "" THEN a ELSE b

\* load_json: the document, or sys.exit for a file that is not UTF-8 or not JSON
load_json_exits(d) == d.enc # "utf-8" \/ d.text # "json"

\* parse_items: the items, each with its "attributes"; sys.exit when the
\* document has no "data" list, no "tests" list and is no list
parse_items_exits(d) == d.shape \notin {"data", "tests", "list"}

parse_items(d) == [k \in 1..Len(d.elems) |-> [attributes |-> d.elems[k]]]

to_row(item) ==
    LET attr == item.attributes
        run_at == or(get(attr, "created-at"), or(get(attr, "created_at"), get(attr, "run_at")))
        run_id == or(get(attr, "run-id"), get(attr, "run_id"))
        title == strip(get(attr, "title"))
        status == get(attr, "status")
        retries == IF IsIntString(get(attr, "retries")) THEN py_int(get(attr, "retries")) ELSE 0
        duration == or(get(attr, "run-time"), or(get(attr, "duration_ms"), get(attr, "duration")))
    IN  [run_at |-> run_at,
         run_id |-> or(run_id, run_at),
         title |-> title,
         status |-> status,
         retries |-> py_str(retries),
         duration_ms |-> IF IsIntString(duration) THEN py_str(py_int(duration)) ELSE "",
         trend_last5 |-> <<>>,
         is_flaky |-> "",
         reasons |-> ""]

\* [to_row(it) for it in items if it.get("attributes")]
rows_of(its) ==
    LET kept == SelectSeq(its, LAMBDA it : it.attributes # <<>>)
    IN  AsSeq([k \in 1..Len(kept) |-> to_row(kept[k])])

\* The script is started on an input file.
Invoke ==
    /\ pc = "idle"
    /\ \E d \in Docs :
          /\ Len(ledger) + Len(d.elems) <= MaxLedger
          /\ doc' = d
    /\ pc' = "load_json"
    /\ exit' = ""
    /\ ledger0' = ledger
    /\ items' = <<>>
    /\ new_rows' = <<>>
    /\ all_rows' = <<>>
    /\ input' = <<>>
    /\ order' = <<>>
    /\ grouped' = NoHistory
    /\ i' = 0
    /\ locals' = NoLocals
    /\ pass' = 0
    /\ UNCHANGED <<ledger, prev>>

\* Mutant: the output file opened for writing before the input is read.
LoadJson_TruncatesFirst ==
    /\ pc = "load_json"
    /\ ledger' = <<>>
    /\ IF load_json_exits(doc)
       THEN pc' = "idle" /\ exit' = "error"
       ELSE pc' = "parse_items" /\ UNCHANGED exit
    /\ UNCHANGED <<ledger0, doc, items, new_rows, all_rows, grouped, i, locals,
                   input, order, pass, prev>>

\* doc = load_json(in_json)
LoadJson ==
    /\ pc = "load_json"
    /\ IF load_json_exits(doc)
       THEN pc' = "idle" /\ exit' = "error"
       ELSE pc' = "parse_items" /\ UNCHANGED exit
    /\ UNCHANGED <<ledger, ledger0, doc, items, new_rows, all_rows, grouped, i, locals,
                   input, order, pass, prev>>

\* items = parse_items(doc)
ParseItems ==
    /\ pc = "parse_items"
    /\ IF parse_items_exits(doc)
       THEN pc' = "idle" /\ exit' = "error" /\ UNCHANGED items
       ELSE pc' = "to_rows" /\ items' = parse_items(doc) /\ UNCHANGED exit
    /\ UNCHANGED <<ledger, ledger0, doc, new_rows, all_rows, grouped, i, locals,
                   input, order, pass, prev>>

\* new_rows = [...]; if not new_rows: sys.exit(...)
ToRows ==
    /\ pc = "to_rows"
    /\ new_rows' = rows_of(items)
    /\ IF new_rows' = <<>>
       THEN pc' = "idle" /\ exit' = "error"
       ELSE pc' = "merge" /\ UNCHANGED exit
    /\ UNCHANGED <<ledger, ledger0, doc, items, all_rows, grouped, i, locals,
                   input, order, pass, prev>>

\* merged = read_existing_csv(out_csv) + new_rows; compute_trend_and_flaky(merged)
Merge ==
    /\ pc = "merge"
    /\ all_rows' = ledger \o new_rows
    /\ input' = all_rows'
    /\ order' = Identity(Len(all_rows'))
    /\ pass' = 1
    /\ pc' = "sort_title"
    /\ UNCHANGED <<ledger, ledger0, doc, items, new_rows, grouped, i, locals, prev, exit>>

\* write_full_csv(out_csv, merged)
WriteCsv ==
    /\ pc = "returned"
    /\ ledger' = all_rows
    /\ exit' = "ok"
    /\ pc' = "idle"
    /\ UNCHANGED <<ledger0, doc, items, new_rows, all_rows, grouped, i, locals,
                   input, order, pass, prev>>

Init ==
    /\ pc = "idle"
    /\ ledger = <<>>
    /\ ledger0 = <<>>
    /\ doc = NoDoc
    /\ items = <<>>
    /\ new_rows = <<>>
    /\ all_rows = <<>>
    /\ input = <<>>
    /\ order = <<>>
    /\ grouped = NoHistory
    /\ i = 0
    /\ locals = NoLocals
    /\ pass = 0
    /\ prev = <<>>
    /\ exit = ""

Next ==
    \/ Invoke
    \/ LoadJson
    \/ ParseItems
    \/ ToRows
    \/ Merge
    \/ SortByTitle
    \/ ScoreRow
    \/ SortByTime
    \/ WriteCsv

Spec == Init /\ [][Next]_vars

---------------------------------------------------------------------------
(* Claims on main (Spec).                                                  *)

\* C6: an invocation that ends in a fatal input error leaves the ledger as
\* it was when the invocation started; nothing is written before the write
\* at the end, which replaces the file by the list the finished scoring
\* returned.
C6_NoPartialUpdate ==
    /\ exit # "ok" => ledger = ledger0
    /\ exit = "error" =>
          \/ load_json_exits(doc)
          \/ parse_items_exits(doc)
          \/ \A k \in 1..Len(doc.elems) : doc.elems[k] = <<>>
    /\ exit = "ok" => (ledger = all_rows /\ i = Len(all_rows))

\* C6 witness: an invocation on a ledger that holds rows has ended in a
\* fatal input error.
C6_Witness ==
    /\ pc = "idle"
    /\ exit = "error"
    /\ ledger # <<>>

\* C7: every row of the ledger has a non-empty title, and the row the loop
\* has just scored has one.
C7_EmptyTitlesExcluded ==
    /\ \A k \in 1..Len(ledger) : ledger[k].title # ""
    /\ JustScored => all_rows[i].title # ""

=============================================================================
